---- MODULE Spec2Model ----
(***************************************************************************)
(* State machine of the ReconcileApp component (src/src/App.jsx) as it is  *)
(* mounted by src/src/main.jsx: the readiness probe, the upload lifecycle  *)
(* with its XHR callbacks, the application-number cache, and the paginated *)
(* detail modal.                                                           *)
(*                                                                         *)
(* JavaScript values are tagged records so that null, undefined, strings,  *)
(* files and parsed JSON objects can be compared with one another.         *)
(***************************************************************************)
EXTENDS Integers, Sequences, FiniteSets, TLC

VARIABLES
    build,            \* which React build runs main.jsx: "production" or "development"
    mounted,          \* the component has mounted and its effect has run
    probesIssued,     \* number of fetch(healthCheckURL) calls made so far
    probesPending,    \* health-check fetches not yet settled
    isBackendReady,   \* useState(false)
    exchangeFile,     \* useState(null)
    pspFile,          \* useState(null)
    loading,          \* useState(false)
    progress,         \* useState(0)
    result,           \* useState(null)
    error,            \* useState(null)
    visibleStatus,    \* useState(null)
    page,             \* useState(1)
    statusAppsCache,  \* statusAppsCacheRef.current, useRef({})
    xhrs,             \* XMLHttpRequests sent and not yet completed
    resultAtSubmit,   \* history: the result held when upload() was last invoked
    download          \* the last file handed to the browser by downloadStatusCSV

vars == <<build, mounted, probesIssued, probesPending, isBackendReady,
          exchangeFile, pspFile, loading, progress, result, error,
          visibleStatus, page, statusAppsCache, xhrs, resultAtSubmit, download>>

-----------------------------------------------------------------------------
(* Bounds of the model *)

\* length of the long application list a response may carry
BigLen == 120
\* largest byte total a request body is given (e.total of a progress event)
MaxTotal == 2
\* requests the transport is given room for (the code itself sets no limit)
MaxXhrs == 2
\* longest application list of the results the browser is started from
MaxListLen == 160

(* Program constants *)
PAGE_SIZE == 50

-----------------------------------------------------------------------------
(* JavaScript values *)

Null == [type |-> "null"]
Undefined == [type |-> "undefined"]
Str(s) == [type |-> "string", value |-> s]
Obj(props) == [type |-> "object", props |-> props]
EmptyObject == <<>>

\* truthiness of the values the model uses (null and undefined are falsy;
\* files, objects, arrays and the non-empty strings used here are truthy)
Truthy(v) == v.type \notin {"null", "undefined"}

Max(a, b) == IF a >= b THEN a ELSE b
Min(a, b) == IF a <= b THEN a ELSE b

\* Math.ceil(n / d) for n >= 0, d > 0
Ceil(n, d) == (n + d - 1) \div d

-----------------------------------------------------------------------------
(* JavaScript numbers: IEEE 754 double precision, round to nearest, ties   *)
(* to even. A positive double is a 53-bit significand, held as three       *)
(* limbs hi (13 bits), mid and lo (20 bits each), times 2^exp:             *)
(*     value = (hi * 2^40 + mid * 2^20 + lo) * 2^exp,  2^12 <= hi < 2^13   *)

Limb == 2^20
HiMin == 2^12

Double(hi, mid, lo, exp) == [hi |-> hi, mid |-> mid, lo |-> lo, exp |-> exp]

\* the next significand up; a carry out of the top bit renormalises
NextUp(x) ==
    IF x.lo + 1 < Limb
    THEN Double(x.hi, x.mid, x.lo + 1, x.exp)
    ELSE IF x.mid + 1 < Limb
    THEN Double(x.hi, x.mid + 1, 0, x.exp)
    ELSE IF x.hi + 1 < 2 * HiMin
    THEN Double(x.hi + 1, 0, 0, x.exp)
    ELSE Double(HiMin, 0, 0, x.exp + 1)

\* round to nearest, ties to even: x is the truncated significand, `above`
\* the dropped part compared with half a unit in the last place (-1, 0, 1)
RoundNearestEven(x, above) ==
    IF above > 0 \/ (above = 0 /\ x.lo % 2 = 1) THEN NextUp(x) ELSE x

\* the least s with a * 2^s >= b, for 1 <= a <= b
RECURSIVE Normalise(_, _)
Normalise(a, b) == IF a >= b THEN 0 ELSE 1 + Normalise(2 * a, b)

\* k further quotient bits of a long division by b that has remainder r
RECURSIVE DivBits(_, _, _)
DivBits(r, b, k) ==
    IF k = 0
    THEN [q |-> 0, r |-> r]
    ELSE LET bit == IF 2 * r >= b THEN 1 ELSE 0
             rest == DivBits(2 * r - bit * b, b, k - 1)
         IN  [q |-> bit * 2^(k - 1) + rest.q, r |-> rest.r]

\* the double a / b of the integers 1 <= a <= b < 2^30
Divide(a, b) ==
    LET s == Normalise(a, b)
        h == DivBits(a * 2^s - b, b, 12)
        m == DivBits(h.r, b, 20)
        l == DivBits(m.r, b, 20)
        g == DivBits(l.r, b, 1)
        above == IF g.q = 0 THEN -1 ELSE IF g.r = 0 THEN 0 ELSE 1
    IN  RoundNearestEven(Double(HiMin + h.q, m.q, l.q, 0 - s - 52), above)

\* the double x * c for a double x and an integer 1 <= c < 2^10
Times(x, c) ==
    LET l == x.lo * c
        m == x.mid * c + l \div Limb
        h == x.hi * c + m \div Limb
        t == CHOOSE t \in 0..10 : h \div 2^t \in HiMin..(2 * HiMin - 1)
        dropped == (l % Limb) % 2^t
        above == IF t = 0 \/ 2 * dropped < 2^t THEN -1
                 ELSE IF 2 * dropped = 2^t THEN 0 ELSE 1
        shifted == Double(h \div 2^t,
                          (m % Limb) \div 2^t + (h % 2^t) * 2^(20 - t),
                          (l % Limb) \div 2^t + (m % 2^t) * 2^(20 - t),
                          x.exp + t)
    IN  RoundNearestEven(shifted, above)

\* Math.round(x) for a double 0 < x < 2^12: floor(x + 1/2), computed from
\* floor(2 * x), which the hi limb alone determines
MathRound(x) ==
    LET v == 0 - x.exp - 41
        twice == IF v > 13 THEN 0 ELSE x.hi \div 2^v
    IN  (twice + 1) \div 2

\* Math.round((n / d) * 100) for integers 0 <= n <= d, d >= 1
RoundPercent(n, d) ==
    IF n = 0 THEN 0 ELSE MathRound(Times(Divide(n, d), 100))

-----------------------------------------------------------------------------
(* Inputs: files, responses *)

File(name, size) == [type |-> "file", name |-> name, size |-> size]
\* the file the user picks for each slot
ExchangeCsv == File("exchange.csv", 2048)
PspCsv == File("psp.csv", 10)
\* e.target.files[0] / e.dataTransfer.files[0]: a file, or nothing chosen
ExchangeInputs == {ExchangeCsv, Undefined}
PspInputs == {PspCsv, Undefined}

AppNo(i) == "A" \o ToString(i)
AppList(n) == [i \in 1..n |-> AppNo(i)]

\* a parsed response object: status_counts as its entries in insertion
\* order, status_applications as a mapping; either may be absent
Json(counts, apps) ==
    [type |-> "object", status_counts |-> counts, status_applications |-> apps]

JsonBig ==
    Json(Obj(<< <<"PENDING", BigLen>>, <<"MATCHED", 2>>, <<"FAILED", 0>> >>),
         Obj([s \in {"PENDING", "MATCHED", "FAILED"} |->
                CASE s = "PENDING" -> AppList(BigLen)
                  [] s = "MATCHED" -> AppList(2)
                  [] OTHER -> <<>>]))
JsonSmall ==
    Json(Obj(<< <<"PENDING", 2>> >>),
         Obj([s \in {"PENDING"} |-> AppList(2)]))
JsonNoApps ==
    Json(Obj(<< <<"MATCHED", 5>>, <<"PENDING", 10>>, <<"FAILED", 0>> >>),
         Undefined)
JsonEmpty == Json(Undefined, Undefined)

SyntaxError == [type |-> "SyntaxError"]

\* response bodies: the text and what JSON.parse makes of it
Body(text, parsed) == [text |-> text, parsed |-> parsed]
JsonBodies ==
    { Body("{big}", JsonBig), Body("{small}", JsonSmall),
      Body("{noapps}", JsonNoApps), Body("{}", JsonEmpty),
      Body("null", Null) }
TextBodies == { Body("", SyntaxError), Body("<html>", SyntaxError) }

StatusText(status) ==
    CASE status = 200 -> "OK"
      [] status = 299 -> ""
      [] status = 300 -> "Multiple Choices"
      [] status = 404 -> "Not Found"
      [] OTHER -> ""
SuccessStatuses == {200, 299}
FailureStatuses == {300, 404}

Response(status, body) ==
    [status |-> status, statusText |-> StatusText(status),
     responseText |-> body.text, parsed |-> body.parsed]
Responses ==
    { Response(s, b) : s \in SuccessStatuses, b \in JsonBodies \cup TextBodies }
    \cup { Response(s, b) : s \in FailureStatuses, b \in TextBodies }

ProbeOutcomes == {"ok", "http_error", "thrown"}

-----------------------------------------------------------------------------
(* Error messages *)

ValidationMessage == "Please select both Exchange and PSP files."
InvalidJsonMessage == "Server returned invalid JSON or response."
NetworkMessage ==
    "Network error while uploading files. Check CORS or API endpoint."
UploadFailedMessage(status, text) ==
    "Upload failed (" \o ToString(status) \o "): " \o text

-----------------------------------------------------------------------------
(* Derived values of a render *)

getApps(status) ==
    IF status \in DOMAIN statusAppsCache
    THEN statusAppsCache[status]
    ELSE <<>>

visibleApps == IF Truthy(visibleStatus) THEN getApps(visibleStatus.value) ELSE <<>>

totalPages == Max(1, Ceil(Len(visibleApps), PAGE_SIZE))

\* Object.entries(result.status_counts) of the current result, unsorted
statusEntries ==
    IF Truthy(result) /\ Truthy(result.status_counts)
    THEN result.status_counts.props
    ELSE <<>>

\* a submit control that is disabled only while the backend is not ready
SubmitDisabledOnlyUntilReady == ~isBackendReady

\* the submit control's disabled prop
SubmitDisabled == loading \/ ~isBackendReady
\* file inputs and a Clear button that are never disabled
ControlsNeverDisabled == FALSE

\* the Clear button's and the file inputs' disabled prop
ControlsDisabled == ~isBackendReady
PrevDisabled == page = 1
NextDisabled == page = totalPages

\* Array.prototype.slice(start, end) for 0 <= start <= end
slice(arr, start, end) ==
    IF start >= Len(arr)
    THEN <<>>
    ELSE SubSeq(arr, start + 1, Min(end, Len(arr)))

\* a page computed from a one-based start index
visiblePageItemsOneBased ==
    slice(visibleApps, (page - 1) * PAGE_SIZE + 1, page * PAGE_SIZE + 1)

\* the items the modal renders for the current page
visiblePageItems ==
    slice(visibleApps, (page - 1) * PAGE_SIZE, page * PAGE_SIZE)

\* Array.prototype.sort is stable: an entry is placed behind every entry
\* the comparator does not order after it
RECURSIVE InsertDescending(_, _)
InsertDescending(e, sorted) ==
    IF sorted = <<>>
    THEN <<e>>
    ELSE IF Head(sorted)[2] >= e[2]
         THEN <<Head(sorted)>> \o InsertDescending(e, Tail(sorted))
         ELSE <<e>> \o sorted

RECURSIVE InsertAscending(_, _)
InsertAscending(e, sorted) ==
    IF sorted = <<>>
    THEN <<e>>
    ELSE IF Head(sorted)[2] <= e[2]
         THEN <<Head(sorted)>> \o InsertAscending(e, Tail(sorted))
         ELSE <<e>> \o sorted

\* entries.sort((a, b) => b[1] - a[1])
RECURSIVE SortDescending(_)
SortDescending(entries) ==
    IF entries = <<>>
    THEN <<>>
    ELSE InsertDescending(entries[Len(entries)],
                          SortDescending(SubSeq(entries, 1, Len(entries) - 1)))

\* entries.sort((a, b) => a[1] - b[1])
RECURSIVE SortAscending(_)
SortAscending(entries) ==
    IF entries = <<>>
    THEN <<>>
    ELSE InsertAscending(entries[Len(entries)],
                         SortAscending(SubSeq(entries, 1, Len(entries) - 1)))

\* a summary sorted with the comparator's operands swapped
statusesSortedAscending == SortAscending(statusEntries)

\* the (status, count) rows of the summary
statusesSorted == SortDescending(statusEntries)

\* Math.max(...statusesSorted.map((s) => s[1]), 1)
RECURSIVE MaxOf(_, _)
MaxOf(rows, floor) ==
    IF rows = <<>>
    THEN floor
    ELSE MaxOf(Tail(rows), Max(Head(rows)[2], floor))

maxCount == MaxOf(statusesSorted, 1)

\* Math.round((count / maxCount) * 100), in double precision
pct(count) == RoundPercent(count, maxCount)

\* what the summary renders: one row per sorted entry
summaryRows ==
    [i \in 1..Len(statusesSorted) |->
        [status |-> statusesSorted[i][1],
         count |-> statusesSorted[i][2],
         pct |-> pct(statusesSorted[i][2])]]

\* the elements apps[lo..hi] with sep between neighbours (lo <= hi)
RECURSIVE joinRange(_, _, _, _)
joinRange(apps, lo, hi, sep) ==
    IF lo = hi
    THEN apps[lo]
    ELSE LET mid == (lo + hi) \div 2
         IN  joinRange(apps, lo, mid, sep) \o sep
                 \o joinRange(apps, mid + 1, hi, sep)

\* Array.prototype.join
join(apps, sep) ==
    IF Len(apps) = 0 THEN "" ELSE joinRange(apps, 1, Len(apps), sep)

\* a CSV body that ends every line with a newline
csvContentTrailingNewline(apps) ==
    "applicationNumber\n" \o join(apps, "\n") \o "\n"

\* header + body of downloadStatusCSV
csvContent(apps) == "applicationNumber\n" \o join(apps, "\n")

\* the file downloadStatusCSV(status) hands to the browser
csvDownload(status) ==
    [type |-> "download",
     filename |-> status \o "_applications.csv",
     mime |-> "text/csv;charset=utf-8;",
     content |-> csvContent(getApps(status))]

-----------------------------------------------------------------------------
(* Initial state: the useState / useRef initial values, before mount *)

Init ==
    /\ build \in {"production", "development"}
    /\ mounted = FALSE
    /\ probesIssued = 0
    /\ probesPending = 0
    /\ isBackendReady = FALSE
    /\ exchangeFile = Null
    /\ pspFile = Null
    /\ loading = FALSE
    /\ progress = 0
    /\ result = Null
    /\ error = Null
    /\ visibleStatus = Null
    /\ page = 1
    /\ statusAppsCache = EmptyObject
    /\ xhrs = <<>>
    /\ resultAtSubmit = Null
    /\ download = Null

probeVars == <<build, mounted, probesIssued, probesPending, isBackendReady>>
fileVars == <<exchangeFile, pspFile>>
viewVars == <<visibleStatus, page>>

-----------------------------------------------------------------------------
(* Readiness prober *)

\* how many times React runs a mount effect: <React.StrictMode> runs it a
\* second time in a development build
EffectRuns == IF build = "development" THEN 2 ELSE 1

\* mount: the warm-up effect runs, each run calling fetch once
Mount ==
    /\ ~mounted
    /\ mounted' = TRUE
    /\ probesIssued' = probesIssued + EffectRuns
    /\ probesPending' = probesPending + EffectRuns
    /\ UNCHANGED <<build, isBackendReady, fileVars, loading, progress, result,
                   error, viewVars, statusAppsCache, xhrs, resultAtSubmit,
                   download>>

\* the flag warmUpBackend sets once its fetch settles with `outcome`
warmUpBackend(outcome) ==
    IF outcome = "thrown"
    THEN TRUE
    ELSE IF outcome = "ok" THEN TRUE ELSE TRUE

ProbeSettle ==
    /\ probesPending > 0
    /\ \E outcome \in ProbeOutcomes :
          isBackendReady' = warmUpBackend(outcome)
    /\ probesPending' = probesPending - 1
    /\ UNCHANGED <<build, mounted, probesIssued, fileVars, loading, progress,
                   result, error, viewVars, statusAppsCache, xhrs,
                   resultAtSubmit, download>>

-----------------------------------------------------------------------------
(* File selection and reset *)

\* onChangeFile / onDropFile: if (f) setter(f)
onChangeFile(f, current) == IF Truthy(f) THEN f ELSE current

SelectExchangeFile ==
    /\ ~ControlsDisabled
    /\ \E f \in ExchangeInputs : exchangeFile' = onChangeFile(f, exchangeFile)
    /\ UNCHANGED <<probeVars, pspFile, loading, progress, result, error,
                   viewVars, statusAppsCache, xhrs, resultAtSubmit, download>>

SelectPspFile ==
    /\ ~ControlsDisabled
    /\ \E f \in PspInputs : pspFile' = onChangeFile(f, pspFile)
    /\ UNCHANGED <<probeVars, exchangeFile, loading, progress, result, error,
                   viewVars, statusAppsCache, xhrs, resultAtSubmit, download>>

\* a reset that forgets the application cache
clearAllKeepsCache ==
    /\ ~ControlsDisabled
    /\ exchangeFile' = Null
    /\ pspFile' = Null
    /\ result' = Null
    /\ error' = Null
    /\ progress' = 0
    /\ UNCHANGED <<probeVars, loading, viewVars, statusAppsCache, xhrs,
                   resultAtSubmit, download>>

\* a reset that also aborts the outstanding request
clearAllAborts ==
    /\ ~ControlsDisabled
    /\ exchangeFile' = Null
    /\ pspFile' = Null
    /\ result' = Null
    /\ error' = Null
    /\ progress' = 0
    /\ statusAppsCache' = EmptyObject
    /\ xhrs' = <<>>
    /\ loading' = FALSE
    /\ UNCHANGED <<probeVars, viewVars, resultAtSubmit, download>>

clearAll ==
    /\ ~ControlsDisabled
    /\ exchangeFile' = Null
    /\ pspFile' = Null
    /\ result' = Null
    /\ error' = Null
    /\ progress' = 0
    /\ statusAppsCache' = EmptyObject
    /\ UNCHANGED <<probeVars, loading, viewVars, xhrs, resultAtSubmit,
                   download>>

-----------------------------------------------------------------------------
(* Upload submitter *)

\* the request upload() sends: nothing transmitted yet, body of `total` bytes
NewXhr(total) == [loaded |-> 0, total |-> total]

\* byte totals of the request bodies: the small ones, and one for which a
\* progress event can fall on an exact half percent (23 of 40 is 57.5%)
LargeTotals == {40}
Totals == (1..MaxTotal) \cup LargeTotals
\* the byte counts at which the transport reports progress on a large body
ReportPoints == {0, 23}

\* the guard of the Run Reconciliation button
CanSubmit == ~SubmitDisabled

\* a validation branch that lacks its return and goes on to send
uploadRejectedFallsThrough ==
    /\ ~(Truthy(exchangeFile) /\ Truthy(pspFile))
    /\ Len(xhrs) < MaxXhrs
    /\ error' = Str(ValidationMessage)
    /\ result' = Null
    /\ loading' = TRUE
    /\ progress' = 0
    /\ \E total \in Totals : xhrs' = Append(xhrs, NewXhr(total))

\* a validation branch that leaves the previous result on screen
uploadRejectedKeepsResult ==
    /\ ~(Truthy(exchangeFile) /\ Truthy(pspFile))
    /\ error' = Str(ValidationMessage)
    /\ UNCHANGED <<result, loading, progress, xhrs>>

\* a validation branch that also resets the progress bar
uploadRejectedResetsProgress ==
    /\ ~(Truthy(exchangeFile) /\ Truthy(pspFile))
    /\ error' = Str(ValidationMessage)
    /\ result' = Null
    /\ progress' = 0
    /\ UNCHANGED <<loading, xhrs>>

\* upload() with a file missing: validation error, no request
uploadRejected ==
    /\ ~(Truthy(exchangeFile) /\ Truthy(pspFile))
    /\ error' = Str(ValidationMessage)
    /\ result' = Null
    /\ UNCHANGED <<loading, progress, xhrs>>

\* upload() with both files: request created and sent
uploadSent ==
    /\ Truthy(exchangeFile) /\ Truthy(pspFile)
    /\ Len(xhrs) < MaxXhrs
    /\ error' = Null
    /\ result' = Null
    /\ loading' = TRUE
    /\ progress' = 0
    /\ \E total \in Totals : xhrs' = Append(xhrs, NewXhr(total))

upload ==
    /\ CanSubmit
    /\ resultAtSubmit' = result
    /\ (uploadRejected \/ uploadSent)
    /\ UNCHANGED <<probeVars, fileVars, viewVars, statusAppsCache, download>>

RemoveAt(s, i) == SubSeq(s, 1, i - 1) \o SubSeq(s, i + 1, Len(s))

\* the value xhr.upload.onprogress displays for an event
progressValue(lengthComputable, loaded, total, current) ==
    IF lengthComputable
    THEN Max(1, RoundPercent(loaded, total))
    ELSE current

\* e.loaded of the progress events a request can still deliver
LoadedValues(x) ==
    { l \in x.loaded..x.total :
        x.total \in LargeTotals => l \in ReportPoints \cup {x.total} }

\* xhr.upload.onprogress: the transport reports bytes sent so far, which
\* never go down within one request
onprogress ==
    \E i \in 1..Len(xhrs) :
    \E loaded \in LoadedValues(xhrs[i]) :
    \E lengthComputable \in BOOLEAN :
        /\ xhrs' = [xhrs EXCEPT ![i].loaded = loaded]
        /\ progress' = progressValue(lengthComputable, loaded, xhrs[i].total,
                                     progress)
        /\ UNCHANGED <<probeVars, fileVars, loading, result, error, viewVars,
                       statusAppsCache, resultAtSubmit, download>>

\* the cache after a successfully parsed response `json`
cacheAfterLoad(json, cache) ==
    IF Truthy(json.status_applications)
    THEN json.status_applications.props
    ELSE cache

\* xhr.onload, status in [200, 300)
onloadSuccess(r) ==
    /\ r.status >= 200 /\ r.status < 300
    /\ IF r.parsed = SyntaxError
       THEN \* JSON.parse threw
            /\ error' = Str(InvalidJsonMessage)
            /\ UNCHANGED <<result, statusAppsCache>>
       ELSE IF r.parsed = Null
       THEN \* setResult(null), then reading a property of null threw
            /\ result' = Null
            /\ error' = Str(InvalidJsonMessage)
            /\ UNCHANGED statusAppsCache
       ELSE /\ result' = r.parsed
            /\ statusAppsCache' = cacheAfterLoad(r.parsed, statusAppsCache)
            /\ UNCHANGED error

\* a non-2xx branch that reports the generic network message
onloadFailureGenericMessage(r) ==
    /\ ~(r.status >= 200 /\ r.status < 300)
    /\ error' = Str(NetworkMessage)
    /\ UNCHANGED <<result, statusAppsCache>>

\* xhr.onload, any other status
onloadFailure(r) ==
    /\ ~(r.status >= 200 /\ r.status < 300)
    /\ error' = Str(UploadFailedMessage(r.status,
                     IF r.responseText # "" THEN r.responseText
                     ELSE r.statusText))
    /\ UNCHANGED <<result, statusAppsCache>>

\* xhr.onload for a request that completed with response r
onloadWith(r) ==
    \E i \in 1..Len(xhrs) :
        /\ xhrs' = RemoveAt(xhrs, i)
        /\ loading' = FALSE
        /\ (onloadSuccess(r) \/ onloadFailure(r))
        /\ UNCHANGED <<probeVars, fileVars, progress, viewVars, resultAtSubmit,
                       download>>

onload == \E r \in Responses : onloadWith(r)

\* an onerror that forgets setLoading(false)
onerrorKeepsLoading ==
    \E i \in 1..Len(xhrs) :
        /\ xhrs' = RemoveAt(xhrs, i)
        /\ error' = Str(NetworkMessage)
        /\ UNCHANGED <<probeVars, fileVars, loading, progress, result, viewVars,
                       statusAppsCache, resultAtSubmit, download>>

\* xhr.onerror: the request failed with no response
onerror ==
    \E i \in 1..Len(xhrs) :
        /\ xhrs' = RemoveAt(xhrs, i)
        /\ loading' = FALSE
        /\ error' = Str(NetworkMessage)
        /\ UNCHANGED <<probeVars, fileVars, progress, result, viewVars,
                       statusAppsCache, resultAtSubmit, download>>

-----------------------------------------------------------------------------
(* Result browser: detail modal *)

\* the statuses whose "Show apps" button is rendered and enabled
OpenableStatuses ==
    { statusEntries[i][1] : i \in { j \in 1..Len(statusEntries) :
                                      statusEntries[j][2] # 0 } }

openStatus ==
    \E status \in OpenableStatuses :
        /\ visibleStatus' = Str(status)
        /\ page' = 1
        /\ UNCHANGED <<probeVars, fileVars, loading, progress, result, error,
                       statusAppsCache, xhrs, resultAtSubmit, download>>

\* a close handler that also drops the cached application lists
closeStatusDropsCache ==
    /\ Truthy(visibleStatus)
    /\ visibleStatus' = Null
    /\ statusAppsCache' = EmptyObject
    /\ UNCHANGED <<probeVars, fileVars, loading, progress, result, error, page,
                   xhrs, resultAtSubmit, download>>

closeStatus ==
    /\ Truthy(visibleStatus)
    /\ visibleStatus' = Null
    /\ UNCHANGED <<probeVars, fileVars, loading, progress, result, error, page,
                   statusAppsCache, xhrs, resultAtSubmit, download>>

\* the Prev and Next buttons' state updaters
prevPage(p) == Max(1, p - 1)
nextPage(p) == Min(totalPages, p + 1)

Prev ==
    /\ Truthy(visibleStatus)
    /\ ~PrevDisabled
    /\ page' = prevPage(page)
    /\ UNCHANGED <<probeVars, fileVars, loading, progress, result, error,
                   visibleStatus, statusAppsCache, xhrs, resultAtSubmit,
                   download>>

NextClick ==
    /\ Truthy(visibleStatus)
    /\ ~NextDisabled
    /\ page' = nextPage(page)
    /\ UNCHANGED <<probeVars, fileVars, loading, progress, result, error,
                   visibleStatus, statusAppsCache, xhrs, resultAtSubmit,
                   download>>

-----------------------------------------------------------------------------
(* Result browser: CSV export *)

\* the statuses a Download CSV button is rendered and enabled for: the
\* summary rows with a non-zero count, and the status of the open modal
DownloadableStatuses ==
    OpenableStatuses \cup
        (IF Truthy(visibleStatus) THEN {visibleStatus.value} ELSE {})

downloadStatusCSV ==
    \E status \in DownloadableStatuses :
        /\ download' = csvDownload(status)
        /\ UNCHANGED <<probeVars, fileVars, loading, progress, result, error,
                       viewVars, statusAppsCache, xhrs, resultAtSubmit>>

-----------------------------------------------------------------------------

Next ==
    \/ Mount
    \/ ProbeSettle
    \/ SelectExchangeFile
    \/ SelectPspFile
    \/ clearAll
    \/ upload
    \/ onprogress
    \/ onload
    \/ onerror
    \/ openStatus
    \/ closeStatus
    \/ Prev
    \/ NextClick
    \/ downloadStatusCSV

Spec == Init /\ [][Next]_vars

-----------------------------------------------------------------------------
(* The result browser on its own: started from the state a successful      *)
(* upload leaves, for a wider family of results than Responses carries     *)

BrowseStatuses == {"PENDING", "MATCHED", "FAILED"}
CountValues == {0, 1, 5, 8, 10}

\* the orders in which a response may list some or all of the statuses
StatusOrders ==
    { o \in UNION { [1..k -> BrowseStatuses] : k \in 0..Cardinality(BrowseStatuses) } :
        \A i, j \in DOMAIN o : i # j => o[i] # o[j] }

\* results that list statuses with small counts, each status with as many
\* application numbers as its count
CountResults ==
    UNION { { Json(Obj([i \in DOMAIN o |-> <<o[i], c[i]>>]),
                   Obj([st \in { o[i] : i \in DOMAIN o } |->
                          AppList(c[CHOOSE i \in DOMAIN o : o[i] = st])])) :
              c \in [DOMAIN o -> CountValues] } :
            o \in StatusOrders }

\* results with one status and an application list of every length
ListResults ==
    { Json(Obj(<< <<"PENDING", n>> >>), Obj([st \in {"PENDING"} |-> AppList(n)])) :
        n \in 1..MaxListLen }

\* results whose two counts are in every ratio n : d for a denominator d
\* that has exact half percents (1 of 200 is 0.5%, 23 of 40 is 57.5%); the
\* smaller count is listed first and no application lists are sent
HalfDenominators == {40, 200}
RatioResults ==
    UNION { { Json(Obj(<< <<"MATCHED", n>>, <<"PENDING", d>> >>), Undefined) :
                n \in 0..d } :
            d \in HalfDenominators }

BrowseResults == CountResults \cup ListResults \cup RatioResults \cup {JsonEmpty}

\* the state right after xhr.onload has installed a result: one probe
\* settled, both files selected, the request completed
InitBrowse ==
    /\ build = "production"
    /\ mounted = TRUE
    /\ probesIssued = 1
    /\ probesPending = 0
    /\ isBackendReady = TRUE
    /\ exchangeFile = ExchangeCsv
    /\ pspFile = PspCsv
    /\ loading = FALSE
    /\ progress = 100
    /\ result \in BrowseResults
    /\ error = Null
    /\ visibleStatus = Null
    /\ page = 1
    /\ statusAppsCache = cacheAfterLoad(result, EmptyObject)
    /\ xhrs = <<>>
    /\ resultAtSubmit = Null
    /\ download = Null

BrowseNext ==
    \/ openStatus
    \/ closeStatus
    \/ Prev
    \/ NextClick
    \/ downloadStatusCSV
    \/ clearAll

BrowseSpec == InitBrowse /\ [][BrowseNext]_vars

\* the probe settles whenever one is pending, and the mount effect runs:
\* the browser completes or fails a fetch, and React commits the mount
FairSpec == Spec /\ WF_vars(Mount) /\ WF_vars(ProbeSettle)

\* the readiness gate opens (the liveness half of C5)
EventuallyReady == <>isBackendReady

-----------------------------------------------------------------------------
(* Claims *)

BothFilesSelected == Truthy(exchangeFile) /\ Truthy(pspFile)

\* C1: when upload() runs with the Exchange file, the PSP file or both
\* unselected, it sets the validation error and sends nothing: the set of
\* requests is unchanged and loading is false before and after.
C1_ValidationSendsNothing ==
    [][ (upload /\ ~BothFilesSelected) =>
          /\ error' = Str(ValidationMessage)
          /\ xhrs' = xhrs
          /\ ~loading /\ ~loading' ]_vars

\* C1 witness: a validation error is shown with exactly one file selected,
\* nothing in flight.
C1_Witness ==
    /\ error = Str(ValidationMessage)
    /\ Truthy(exchangeFile) /\ ~Truthy(pspFile)
    /\ xhrs = <<>> /\ ~loading

\* a 2xx completion whose body JSON.parse rejects
ParseFailureStep ==
    \E r \in Responses :
        /\ r.status >= 200 /\ r.status < 300
        /\ r.parsed = SyntaxError
        /\ onloadWith(r)

\* C2: after a 2xx completion with an unparseable body an error is shown
\* and the result held before that upload was started is still the current
\* result.
C2_PreviousResultKept ==
    [][ ParseFailureStep =>
          (Truthy(error') /\ result' = resultAtSubmit) ]_vars

\* C3: whenever the current result (the most recent successful response)
\* has no status_applications, the application-number cache is empty.
C3_CacheEmptyWithoutApps ==
    (Truthy(result) /\ ~Truthy(result.status_applications)) =>
        statusAppsCache = EmptyObject

\* C4: at most one upload request is in flight, and while one is in flight
\* loading is true and the submit control is disabled.
C4_SingleFlight ==
    /\ Len(xhrs) <= 1
    /\ Len(xhrs) = 1 => (loading /\ SubmitDisabled)

\* C4 witness: a request is in flight while both files are selected and the
\* backend is ready, so only the loading flag holds back a second submit.
C4_Witness ==
    /\ Len(xhrs) = 1
    /\ BothFilesSelected
    /\ isBackendReady
    /\ progress > 0

\* C5: the readiness probe is issued exactly once: never more than one
\* health-check fetch is made, and the gate is ready only after that one.
C5_SingleProbe ==
    /\ probesIssued <= 1
    /\ isBackendReady => probesIssued = 1

\* C6: while an upload is in flight the displayed progress lies in 0..100,
\* never decreases and, once above 0, is never 0 again before completion.
C6_ProgressMonotone ==
    [][ (Len(xhrs) >= 1 /\ Len(xhrs') >= 1) =>
          /\ progress' \in 0..100
          /\ progress' >= progress
          /\ (progress > 0 => progress' > 0) ]_vars

\* C7: whenever the detail modal is open, 1 <= page <= totalPages.
C7_PageInRange ==
    Truthy(visibleStatus) => (1 <= page /\ page <= totalPages)

\* C8: with the modal open, Prev at page 1 and Next at page totalPages
\* leave the page where it is, and any other Prev or Next moves it by
\* exactly one.
C8_NoWrap ==
    Truthy(visibleStatus) =>
        /\ prevPage(page) = (IF page = 1 THEN 1 ELSE page - 1)
        /\ nextPage(page) = (IF page = totalPages THEN totalPages ELSE page + 1)

\* C9: whenever the backend is ready and no upload is in flight, loading is
\* false, the submit control is enabled and upload() can be invoked; in
\* particular this holds after every kind of upload error.
C9_RetryAlwaysPossible ==
    (isBackendReady /\ xhrs = <<>>) =>
        (~loading /\ ~SubmitDisabled /\ ENABLED upload)

\* C9 witness: an upload has ended in a network error with both files
\* still selected, and the submitter is idle again.
C9_Witness ==
    /\ error = Str(NetworkMessage)
    /\ BothFilesSelected
    /\ isBackendReady /\ xhrs = <<>> /\ ~loading

\* C10: in every step that leaves a loaded result in place, the cache and
\* with it the list returned for the visible status stay the same.
C10_CacheStableWhileResultHeld ==
    [][ (Truthy(result) /\ result' = result) =>
          /\ statusAppsCache' = statusAppsCache
          /\ (visibleStatus' = visibleStatus => visibleApps' = visibleApps) ]_vars

\* C10 witness: a result with application lists is held and the user has
\* paged through one of its lists.
C10_Witness ==
    /\ Truthy(result)
    /\ Truthy(result.status_applications)
    /\ statusAppsCache = result.status_applications.props
    /\ Truthy(visibleStatus)
    /\ page > 1

\* the message expected for each failure response of the model: the status
\* code, then the body, or the status text when the body is empty
C11_ExpectedMessage(r) ==
    CASE r.status = 300 /\ r.responseText = "" ->
             "Upload failed (300): Multiple Choices"
      [] r.status = 300 /\ r.responseText = "<html>" ->
             "Upload failed (300): <html>"
      [] r.status = 404 /\ r.responseText = "" ->
             "Upload failed (404): Not Found"
      [] r.status = 404 /\ r.responseText = "<html>" ->
             "Upload failed (404): <html>"

\* C11: a completion with a status outside [200,300) sets the error that
\* carries that status code and the response text, a network failure sets
\* the network message, the two differ, and in both cases result stays null
\* and the cache is not modified.
C11_FailureKindsDistinct ==
    [][ /\ \A r \in Responses :
             (~(r.status >= 200 /\ r.status < 300) /\ onloadWith(r)) =>
                 /\ error' = Str(C11_ExpectedMessage(r))
                 /\ error' # Str(NetworkMessage)
                 /\ result = Null /\ result' = Null
                 /\ statusAppsCache' = statusAppsCache
        /\ onerror =>
                 /\ error' = Str(NetworkMessage)
                 /\ result = Null /\ result' = Null
                 /\ statusAppsCache' = statusAppsCache ]_vars

\* C11 witness: an upload has ended with status 404 and an empty body while
\* lists of an earlier result were cached.
C11_Witness ==
    /\ error = Str("Upload failed (404): Not Found")
    /\ result = Null
    /\ statusAppsCache # EmptyObject
    /\ ~loading

\* the readiness probe has settled at least once
ProbeSettled == probesIssued >= 1 /\ probesPending < probesIssued

\* C12: an upload in flight, a selected file, a result or an error implies
\* that the backend is ready and the readiness probe has settled.
C12_NothingBeforeReady ==
    (loading \/ xhrs # <<>> \/ Truthy(exchangeFile) \/ Truthy(pspFile)
       \/ Truthy(result) \/ Truthy(error)) =>
        (isBackendReady /\ ProbeSettled)

\* C12 witness: an upload is in flight with a file selected while a second
\* probe is still pending.
C12_Witness ==
    /\ loading
    /\ Truthy(exchangeFile)
    /\ isBackendReady
    /\ probesPending > 0

\* C16: clearAll sets both files, the result and the error to null, the
\* progress to 0 and the cache to empty, and leaves loading, the readiness
\* flag, the visible modal status and the page as they were.
C16_ClearAllFrame ==
    [][ clearAll =>
          /\ exchangeFile' = Null /\ pspFile' = Null
          /\ result' = Null /\ error' = Null
          /\ progress' = 0
          /\ statusAppsCache' = EmptyObject
          /\ loading' = loading
          /\ isBackendReady' = isBackendReady
          /\ visibleStatus' = visibleStatus
          /\ page' = page ]_vars

\* C16 witness: everything clearAll resets is reset while an upload is
\* still loading and the modal is open beyond its first page.
C16_Witness ==
    /\ exchangeFile = Null /\ pspFile = Null
    /\ result = Null /\ error = Null
    /\ progress = 0 /\ statusAppsCache = EmptyObject
    /\ loading
    /\ Truthy(visibleStatus) /\ page > 1

\* C17: a result and an error are never both present.
C17_ResultXorError ==
    Truthy(result) => ~Truthy(error)

\* C17 witness: an upload started while a result was held has ended in a
\* network error, and the result is gone.
C17_Witness ==
    /\ error = Str(NetworkMessage)
    /\ Truthy(resultAtSubmit)
    /\ result = Null

\* a 2xx completion whose body parses to an object
SuccessStep(r) ==
    /\ r.status >= 200 /\ r.status < 300
    /\ r.parsed # SyntaxError /\ r.parsed # Null
    /\ onloadWith(r)

\* C18: clearAll during an upload leaves loading true and the request
\* outstanding, and a later successful completion installs the result and
\* the cache whatever the file selections are.
C18_ClearDoesNotCancel ==
    [][ /\ (clearAll /\ xhrs # <<>>) =>
             (loading /\ loading' /\ xhrs' = xhrs)
        /\ \A r \in Responses :
             SuccessStep(r) =>
                 /\ result' = r.parsed
                 /\ Truthy(r.parsed.status_applications) =>
                      statusAppsCache' = r.parsed.status_applications.props ]_vars

\* C18 witness: a result and its lists are installed although both file
\* selections are null.
C18_Witness ==
    /\ Truthy(result)
    /\ Truthy(result.status_applications)
    /\ statusAppsCache = result.status_applications.props
    /\ exchangeFile = Null /\ pspFile = Null

\* C19: a submission rejected by validation sets the validation error and
\* a null result, and leaves the file selections, loading, progress, the
\* cache, the modal status and the page unchanged.
C19_RejectedSubmitFrame ==
    [][ (upload /\ ~BothFilesSelected) =>
          /\ error' = Str(ValidationMessage)
          /\ result' = Null
          /\ exchangeFile' = exchangeFile /\ pspFile' = pspFile
          /\ loading' = loading
          /\ progress' = progress
          /\ statusAppsCache' = statusAppsCache
          /\ visibleStatus' = visibleStatus
          /\ page' = page ]_vars

\* C19 witness: a rejected submission has discarded a loaded result whose
\* application lists are still cached, with the progress of the earlier
\* upload still shown.
C19_Witness ==
    /\ error = Str(ValidationMessage)
    /\ result = Null
    /\ Truthy(resultAtSubmit)
    /\ Truthy(resultAtSubmit.status_applications)
    /\ statusAppsCache = resultAtSubmit.status_applications.props
    /\ progress > 0

\* C13: with the modal open on a list of length n and 1 <= page <=
\* totalPages, totalPages is the least number of pages of PAGE_SIZE items
\* that holds n items (at least 1), and the page shows exactly the items
\* at zero-based indices [(page-1)*PAGE_SIZE, min(page*PAGE_SIZE, n)) in
\* list order; a list of 120 has 3 pages, page 1 = [0,50), page 3 = [100,120).
C13_PageSlices ==
    (Truthy(visibleStatus) /\ 1 <= page /\ page <= totalPages) =>
        LET n == Len(visibleApps)
            first == (page - 1) * PAGE_SIZE
            last == Min(page * PAGE_SIZE, n)
        IN  /\ totalPages >= 1
            /\ totalPages * PAGE_SIZE >= n
            /\ totalPages > 1 => (totalPages - 1) * PAGE_SIZE < n
            /\ Len(visiblePageItems) = last - first
            /\ \A i \in 1..(last - first) :
                   visiblePageItems[i] = visibleApps[first + i]
            /\ n = 120 =>
                   /\ totalPages = 3
                   /\ page = 1 => /\ Len(visiblePageItems) = 50
                                  /\ visiblePageItems[1] = "A1"
                                  /\ visiblePageItems[50] = "A50"
                   /\ page = 3 => /\ Len(visiblePageItems) = 20
                                  /\ visiblePageItems[1] = "A101"
                                  /\ visiblePageItems[20] = "A120"

\* C13 witness: the modal shows the third page of a list of 120.
C13_Witness ==
    /\ Truthy(visibleStatus)
    /\ Len(visibleApps) = 120
    /\ page = 3
    /\ Len(visiblePageItems) = 20

\* the largest count of the result, and 1 when no count is larger
C14_Max ==
    IF \E i \in DOMAIN statusEntries : statusEntries[i][2] > 1
    THEN CHOOSE c \in { statusEntries[i][2] : i \in DOMAIN statusEntries } :
             \A i \in DOMAIN statusEntries : statusEntries[i][2] <= c
    ELSE 1

\* the summary has one row per (status, count) pair of status_counts, in
\* descending order of count; counts 5, 10, 0 give the order 10, 5, 0 with
\* 100, 50, 0; an all-zero mapping gives 0 everywhere; an empty or absent
\* status_counts gives no row
C14_RowsAndOrder ==
    LET rows == summaryRows
    IN  /\ Len(rows) = Len(statusEntries)
        /\ { <<rows[i].status, rows[i].count>> : i \in DOMAIN rows }
             = { statusEntries[i] : i \in DOMAIN statusEntries }
        /\ \A i, j \in DOMAIN rows : i < j => rows[i].count >= rows[j].count
        /\ \A i \in DOMAIN rows : rows[i].pct \in 0..100
        /\ statusEntries = << <<"MATCHED", 5>>, <<"PENDING", 10>>, <<"FAILED", 0>> >> =>
             rows = << [status |-> "PENDING", count |-> 10, pct |-> 100],
                       [status |-> "MATCHED", count |-> 5, pct |-> 50],
                       [status |-> "FAILED", count |-> 0, pct |-> 0] >>
        /\ (\A i \in DOMAIN statusEntries : statusEntries[i][2] = 0) =>
             \A i \in DOMAIN rows : rows[i].pct = 0
        /\ (~Truthy(result) \/ ~Truthy(result.status_counts)
              \/ result.status_counts.props = <<>>) => rows = <<>>

\* C14 as stated: the summary has one row per (status, count) pair of the
\* result's status_counts, in descending order of count, each with the
\* percentage round(count / max(maxCount, 1) * 100), the exact percentage
\* rounded to the nearest integer with halves rounded up; counts 5, 10, 0
\* give the order 10, 5, 0 with 100, 50, 0; an all-zero mapping gives 0
\* everywhere; an empty or absent status_counts gives no row.
C14_ExactPercent ==
    /\ C14_RowsAndOrder
    /\ \A i \in DOMAIN summaryRows :
         /\ 2 * C14_Max * summaryRows[i].pct - C14_Max <= 200 * summaryRows[i].count
         /\ 200 * summaryRows[i].count < 2 * C14_Max * summaryRows[i].pct + C14_Max

\* the whole percents k whose half k + 1/2 the bar shows as k
C14_HalvesShownBelow == {14, 28, 56, 57}

\* C14, amended: the summary has one row per (status, count) pair of the
\* result's status_counts, in descending order of count, each with a
\* percentage that is a nearest integer to the exact percentage
\* 100 * count / max(maxCount, 1): the nearest one when there is one, and
\* for an exact half k + 1/2 the upper one k + 1, except that 14.5, 28.5,
\* 56.5 and 57.5 are shown as 14, 28, 56 and 57; counts 5, 10, 0 give the
\* order 10, 5, 0 with 100, 50, 0; an all-zero mapping gives 0 everywhere;
\* an empty or absent status_counts gives no row.
C14_SummaryRows ==
    /\ C14_RowsAndOrder
    /\ \A i \in DOMAIN summaryRows :
         LET twice == 200 * summaryRows[i].count
             shown == summaryRows[i].pct
         IN  /\ 2 * C14_Max * shown - C14_Max <= twice
             /\ twice <= 2 * C14_Max * shown + C14_Max
             /\ \A k \in 0..99 :
                  twice = (2 * k + 1) * C14_Max =>
                      shown = IF k \in C14_HalvesShownBelow THEN k ELSE k + 1

\* C14 witness: the result lists the counts 23 and 40 in that order; the
\* summary shows 40 first, at 100, and 23 at 57 for its exact 57.5.
C14_Witness ==
    /\ statusEntries = << <<"MATCHED", 23>>, <<"PENDING", 40>> >>
    /\ Len(summaryRows) = 2
    /\ summaryRows[1].status = "PENDING"
    /\ summaryRows[1].pct = 100
    /\ summaryRows[2].pct = 57
    /\ Truthy(visibleStatus)

\* the lines lo..hi of a list, each preceded by a newline
RECURSIVE C15_Block(_, _, _)
C15_Block(list, lo, hi) ==
    IF lo > hi
    THEN ""
    ELSE IF lo = hi
    THEN "\n" \o list[lo]
    ELSE LET mid == (lo + hi) \div 2
         IN  C15_Block(list, lo, mid) \o C15_Block(list, mid + 1, hi)

\* the text expected for a non-empty list: the header, then every
\* application number on a line of its own, no newline after the last
C15_Lines(list, k) == "applicationNumber" \o C15_Block(list, 1, k)

\* an export of a status that the current result maps to a non-empty list
ExportStep(status) ==
    /\ UNCHANGED <<probeVars, fileVars, loading, progress, result, error,
                   viewVars, statusAppsCache, xhrs, resultAtSubmit>>
    /\ Truthy(result)
    /\ Truthy(result.status_applications)
    /\ status \in DOMAIN result.status_applications.props
    /\ result.status_applications.props[status] # <<>>
    /\ status \in DownloadableStatuses
    /\ download' = csvDownload(status)

\* C15: exporting a status that the loaded result maps to an application
\* list yields the header line applicationNumber followed by that list's
\* application numbers in order, one per line, with no trailing newline,
\* in a file named {status}_applications.csv; for [A1, A2] the text is
\* applicationNumber, A1, A2 on three lines.
C15_CsvExport ==
    [][ \A status \in BrowseStatuses :
          ExportStep(status) =>
            LET list == result.status_applications.props[status]
            IN  /\ download'.content = C15_Lines(list, Len(list))
                /\ download'.filename = status \o "_applications.csv"
                /\ list = <<"A1", "A2">> =>
                     download'.content = "applicationNumber\nA1\nA2" ]_vars

\* C15 witness: after an upload whose response maps PENDING to [A1, A2],
\* PENDING has been exported.
C15_Witness ==
    /\ Truthy(result)
    /\ Truthy(result.status_applications)
    /\ "PENDING" \in DOMAIN result.status_applications.props
    /\ result.status_applications.props["PENDING"] = <<"A1", "A2">>
    /\ Truthy(download)
    /\ download.filename = "PENDING_applications.csv"
    /\ download.content = "applicationNumber\nA1\nA2"

====
